---------------------------- MODULE Spec2Model ----------------------------
(***************************************************************************)
(* Model of src/app.py: the question paper generator (topic locator,       *)
(* question synthesizers with their optional Groq backend, distractor      *)
(* generator, paper formatter).                                            *)
(*                                                                         *)
(* Strings are sequences of tokens.  A token stands for a run of           *)
(* characters whose only properties the code looks at are kept:            *)
(*   "t"  the topic word in lower case          (e.g. optics)              *)
(*   "T"  the topic word in another case        (e.g. Optics)              *)
(*   " "  white space                                                      *)
(*   "h"  a numbered heading phrase             (e.g. chapter 3)           *)
(*   "x"  any other text                                                   *)
(* and, in the sentences the synthesizers read, the tokens word_tokenize   *)
(* yields: "cell", "Cell", "atp" (a word of three letters), "about" (a     *)
(* stop word of more than three letters) and "." (punctuation).            *)
(***************************************************************************)
EXTENDS Integers, Sequences, FiniteSets, TLC

VARIABLES
    op,             \* the operation that produced the current state
    full_text,      \* find_topic_content: the document, a sequence of lines
    doc_sentences,  \* find_topic_content: what sent_tokenize(full_text) yields
    topic,          \* find_topic_content: the topic string
    topic_content,  \* find_topic_content: the returned string
    correct_answer, \* generate_wrong_answers: the correct answer
    word_pool,      \* generate_wrong_answers: the word pool
    wrong_answers,  \* generate_wrong_answers: the returned list
    content,        \* generate_*: sent_tokenize(content), a sequence of sentences
    num_questions,  \* generate_*: the requested count
    groq,           \* generate_*: what the backend does when it is called
    questions,      \* generate_*: the returned list
    mcqs,           \* format_question_paper: the multiple-choice questions
    short_questions, \* format_question_paper: the short questions
    long_questions, \* format_question_paper: the long questions
    template,       \* format_question_paper: the template argument
    formatted_paper, \* format_question_paper: the returned string
    request,        \* main: the widgets' values and what the backend will do
    messages,       \* main: the st.error and st.warning calls of the run
    session_state,  \* main: st.session_state
    calls,          \* main: the generator's methods the run has called, in order
    displayed       \* main: the paper in the preview of the run, if any

locVars == <<full_text, doc_sentences, topic, topic_content>>
wrongVars == <<correct_answer, word_pool, wrong_answers>>
genVars == <<content, num_questions, groq, questions>>
paperVars == <<mcqs, short_questions, long_questions, template, formatted_paper>>

mainVars == <<request, messages, session_state, calls, displayed>>

vars == <<op, locVars, wrongVars, genVars, paperVars, mainVars>>

None == "None"

Min(a, b) == IF a < b THEN a ELSE b

(***************************************************************************)
(* Python string primitives on token sequences.                            *)
(***************************************************************************)

\* str.lower() of one token
LowerTok(c) ==
    CASE c = "T" -> "t"
      [] c = "Cell" -> "cell"
      [] c = "Atp" -> "atp"
      [] c = "About" -> "about"
      [] OTHER -> c

\* str.title() of one word
TitleTok(c) ==
    CASE c = "cell" -> "Cell"
      [] c = "atp" -> "Atp"
      [] c = "about" -> "About"
      [] c = "t" -> "T"
      [] OTHER -> c

\* str.lower()
Lower(s) == [i \in 1..Len(s) |-> LowerTok(s[i])]

IsSpace(c) == c \in {" ", "\n"}

RECURSIVE LStrip(_)
LStrip(s) == IF s # <<>> /\ IsSpace(Head(s)) THEN LStrip(Tail(s)) ELSE s

RECURSIVE RStrip(_)
RStrip(s) ==
    IF s # <<>> /\ IsSpace(s[Len(s)]) THEN RStrip(SubSeq(s, 1, Len(s) - 1)) ELSE s

\* str.strip()
Strip(s) == RStrip(LStrip(s))

\* needle in hay (substring test)
Contains(hay, needle) ==
    \E i \in 0..(Len(hay) - Len(needle)) :
        SubSeq(hay, i + 1, i + Len(needle)) = needle

Spaces(k) == [i \in 1..k |-> " "]

\* the values of the variables an operation does not use
LocateIdle ==
    /\ full_text = <<>>
    /\ doc_sentences = <<>>
    /\ topic = <<>>
    /\ topic_content = None

WrongIdle ==
    /\ correct_answer = None
    /\ word_pool = <<>>
    /\ wrong_answers = None

GenIdle ==
    /\ content = <<>>
    /\ num_questions = 0
    /\ groq = None
    /\ questions = None

PaperIdle ==
    /\ mcqs = <<>>
    /\ short_questions = <<>>
    /\ long_questions = <<>>
    /\ template = None
    /\ formatted_paper = None

\* st.session_state with no attribute set
NoSession == <<>>

\* a run that does not reach the preview
NoPaper == <<>>

MainIdle ==
    /\ request = None
    /\ messages = <<>>
    /\ session_state = NoSession
    /\ calls = <<>>
    /\ displayed = NoPaper

(***************************************************************************)
(* find_topic_content                                                      *)
(***************************************************************************)

SentenceCap == 50

\* re.search(r'chapter\s+\d+' | r'unit\s+\d+' | r'section\s+\d+', line_lower)
HeadingNumber(line_lower) == Contains(line_lower, <<"h">>)

\* any(re.search(pattern, line_lower, re.IGNORECASE) for pattern in topic_patterns):
\* the three "chapter/unit/section <num>: <topic>" patterns, then the bare topic
TopicPatternMatch(line_lower, tp) ==
    \/ \E k \in 0..Len(line_lower) :
          Contains(line_lower, <<"h">> \o Spaces(k) \o Lower(tp))
    \/ Contains(line_lower, Lower(tp))

\* ScanLines with the break at a foreign heading turned into a skip of that line
RECURSIVE ScanLinesNoBreak(_, _, _, _)
ScanLinesNoBreak(lines, tp, i, capturing) ==
    IF i > Len(lines) THEN <<>>
    ELSE LET line_lower == Strip(Lower(lines[i]))
         IN  IF TopicPatternMatch(line_lower, tp)
             THEN <<lines[i]>> \o ScanLinesNoBreak(lines, tp, i + 1, TRUE)
             ELSE IF capturing /\ ~HeadingNumber(line_lower)
             THEN <<lines[i]>> \o ScanLinesNoBreak(lines, tp, i + 1, capturing)
             ELSE ScanLinesNoBreak(lines, tp, i + 1, capturing)

\* the for loop of find_topic_content from line i on: the lines appended to
\* topic_content
RECURSIVE ScanLines(_, _, _, _)
ScanLines(lines, tp, i, capturing) ==
    IF i > Len(lines) THEN <<>>
    ELSE LET line_lower == Strip(Lower(lines[i]))
             topic_lower == Lower(tp)
         IN  IF TopicPatternMatch(line_lower, tp)
             THEN <<lines[i]>> \o ScanLines(lines, tp, i + 1, TRUE)
             ELSE IF capturing /\ HeadingNumber(line_lower)
                               /\ ~Contains(line_lower, topic_lower)
             THEN <<>>
             ELSE IF capturing
             THEN <<lines[i]>> \o ScanLines(lines, tp, i + 1, capturing)
             ELSE ScanLines(lines, tp, i + 1, capturing)

\* FirstSentences without the cap
AllSentences(sentences) == sentences

\* sentences[:50]
FirstSentences(sentences) == SubSeq(sentences, 1, Min(SentenceCap, Len(sentences)))

\* The returned string: its pieces and the separator that joins them.
find_topic_content(lines, sentences, tp) ==
    LET captured == ScanLines(lines, tp, 1, FALSE)
    IN  IF captured = <<>>
        THEN [sep |-> " ", parts |-> FirstSentences(sentences)]
        ELSE [sep |-> "\n", parts |-> captured]

(***************************************************************************)
(* Inputs of the topic locator.                                            *)
(***************************************************************************)

MaxLines == 5
MaxDocSent == 51

\* the lines a document is made of: plain text, a line starting with the topic,
\* "Chapter 2: <Topic>", another numbered heading, the topic between blanks
LineShapes ==
    { <<"x">>, <<"T", " ", "x">>, <<"h", " ", "T">>, <<"h", "x">>,
      <<" ", "t", " ">> }

\* the topics a caller types: the bare word, the word with a trailing blank,
\* the word followed by more text
TopicShapes == { <<"T">>, <<"t", " ">>, <<"T", " ", "x">> }

SeqsUpTo(S, n) == UNION { [1..k -> S] : k \in 0..n }

Texts == SeqsUpTo(LineShapes, MaxLines)

\* the i-th sentence of the document
Sentence(i) == <<"s", i>>

Sentences(n) == [i \in 1..n |-> Sentence(i)]

IsBlankText(lines) == \A i \in 1..Len(lines) : Strip(lines[i]) = <<>>

\* sent_tokenize(full_text): no sentence in a blank text, otherwise any number
SentenceCounts(lines) ==
    IF IsBlankText(lines) THEN {0}
    ELSE { n \in 1..MaxDocSent : n = 1 \/ n > SentenceCap }

(***************************************************************************)
(* Specification of the topic locator alone.                               *)
(***************************************************************************)

LocateInit ==
    /\ op = "init"
    /\ MainIdle
    /\ WrongIdle
    /\ GenIdle
    /\ PaperIdle
    /\ full_text \in Texts
    /\ doc_sentences \in { Sentences(n) : n \in SentenceCounts(full_text) }
    /\ topic \in TopicShapes
    /\ topic_content = None

FindTopicContent ==
    /\ op = "init"
    /\ op' = "find_topic_content"
    /\ topic_content' = find_topic_content(full_text, doc_sentences, topic)
    /\ UNCHANGED <<full_text, doc_sentences, topic, wrongVars, genVars, paperVars,
                   mainVars>>

LocateNext == FindTopicContent

SpecLocate == LocateInit /\ [][LocateNext]_vars

(***************************************************************************)
(* generate_wrong_answers                                                  *)
(***************************************************************************)

\* generic_answers
generic_answers ==
    <<"None of the above", "All of the above", "Not specified",
      "Cannot be determined">>

\* the injective maps from 1..k to 1..n: the positions random.sample may draw
Draws(n, k) ==
    { f \in [1..k -> 1..n] : \A i, j \in 1..k : i # j => f[i] # f[j] }

\* random.sample(population, k): every list of k elements at distinct positions
Sample(population, k) ==
    { [i \in 1..k |-> population[f[i]]] : f \in Draws(Len(population), k) }

\* str.title() of every word of a list
Title(s) == [i \in 1..Len(s) |-> TitleTok(s[i])]

\* [w.title() for w in word_pool if w != correct_answer.lower()]
Candidates(correct, pool) ==
    LET Differs(w) == w # LowerTok(correct)
    IN  Title(SelectSeq(pool, Differs))

\* s[:k]
Prefix(s, k) == SubSeq(s, 1, Min(k, Len(s)))

\* generate_wrong_answers: the lists the call may return
generate_wrong_answers(correct, pool) ==
    LET candidates == Candidates(correct, pool)
    IN  { Prefix(fromPool \o fromGeneric, 3) :
            fromPool \in Sample(candidates, Min(2, Len(candidates))),
            fromGeneric \in Sample(generic_answers, 2) }

(***************************************************************************)
(* Specification of the distractor generator alone.                        *)
(***************************************************************************)

MaxPool == 3

\* the content words of a sentence, lower-cased
PoolWords == {"cell", "atp"}

WrongInit ==
    /\ op = "init"
    /\ MainIdle
    /\ LocateIdle
    /\ GenIdle
    /\ PaperIdle
    /\ correct_answer \in { TitleTok(w) : w \in PoolWords }
    /\ word_pool \in SeqsUpTo(PoolWords, MaxPool)
    /\ wrong_answers = None

GenerateWrongAnswers ==
    /\ op = "init"
    /\ op' = "generate_wrong_answers"
    /\ wrong_answers' \in generate_wrong_answers(correct_answer, word_pool)
    /\ UNCHANGED <<locVars, genVars, paperVars, mainVars, correct_answer, word_pool>>

WrongNext == GenerateWrongAnswers

SpecWrong == WrongInit /\ [][WrongNext]_vars

(***************************************************************************)
(* Sentences and words.  A sentence is the list of tokens word_tokenize    *)
(* yields for it and the number of characters it holds besides them.       *)
(***************************************************************************)

\* len() of one token
TokLen(c) ==
    CASE c = "cell" -> 4
      [] c = "Cell" -> 4
      [] c = "atp" -> 3
      [] c = "about" -> 5
      [] c = "gene" -> 4
      [] c = "wall" -> 4
      [] c = "q?" -> 25
      [] OTHER -> 1

RECURSIVE SumLen(_)
SumLen(toks) == IF toks = <<>> THEN 0 ELSE TokLen(Head(toks)) + SumLen(Tail(toks))

\* len(sentence)
StrLen(sentence) == SumLen(sentence.toks) + sentence.pad

\* str.isalnum()
IsAlnum(c) == c \notin {".", "?", "q?", " ", "-", "1.", "A."}

\* stopwords.words('english'), as far as the tokens go
stop_words == {"about"}

(***************************************************************************)
(* generate_mcqs_fallback                                                  *)
(***************************************************************************)

MinSentenceLen == 20
MinContentWords == 3
KeyWordWindow == 5
ContextLen == 100

\* words = word_tokenize(sentence.lower()), alphanumeric and not stop words
McqWords(sentence) ==
    LET IsContent(w) == IsAlnum(w) /\ w \notin stop_words
    IN  SelectSeq(Lower(sentence.toks), IsContent)

\* the two "continue" of the loop
McqSkips(sentence) ==
    \/ StrLen(sentence) < MinSentenceLen
    \/ Len(McqWords(sentence)) < MinContentWords

\* sentence.replace(key_word, "______", 1)
RECURSIVE ReplaceFirst(_, _, _)
ReplaceFirst(toks, old, new) ==
    IF toks = <<>> THEN <<>>
    ELSE IF Head(toks) = old THEN <<new>> \o Tail(toks)
    ELSE <<Head(toks)>> \o ReplaceFirst(Tail(toks), old, new)

\* question_text
QuestionText(sentence, key_word) ==
    LET replaced == ReplaceFirst(sentence.toks, key_word, "______")
    IN  IF replaced = sentence.toks
        THEN <<"What is mentioned about", key_word, "in the following context?">>
        ELSE replaced

\* sentence[:100] + "..." if len(sentence) > 100 else sentence
Context(sentence) ==
    IF StrLen(sentence) > ContextLen
    THEN [of |-> sentence, chars |-> ContextLen, ellipsis |-> TRUE]
    ELSE [of |-> sentence, chars |-> StrLen(sentence), ellipsis |-> FALSE]

\* random.shuffle(options): every order of the list
Shuffle(options) ==
    { [i \in 1..Len(options) |-> options[p[i]]] :
        p \in Permutations(1..Len(options)) }

\* the questions one pass of the loop body may append for a sentence it keeps
McqOf(sentence) ==
    LET words == McqWords(sentence)
    IN  UNION { UNION { { [question |-> QuestionText(sentence, key_word),
                           options |-> options,
                           correct_answer |-> TitleTok(key_word),
                           context |-> Context(sentence)] :
                          options \in Shuffle(<<TitleTok(key_word)>> \o Prefix(wrong, 3)) } :
                        wrong \in generate_wrong_answers(TitleTok(key_word), words) } :
                key_word \in { words[k] : k \in 1..Min(KeyWordWindow, Len(words)) } }

\* the lists the loop over sentences[i..last] may build
RECURSIVE McqLoop(_, _, _)
McqLoop(sentences, i, last) ==
    IF i > last THEN { <<>> }
    ELSE IF McqSkips(sentences[i]) THEN McqLoop(sentences, i + 1, last)
    ELSE { <<mcq>> \o rest : mcq \in McqOf(sentences[i]),
                              rest \in McqLoop(sentences, i + 1, last) }

\* generate_mcqs_fallback with a loop that stops one sentence early
McqFallbackOneShort(sentences, n) ==
    { Prefix(built, n) : built \in McqLoop(sentences, 1, Min(n, Len(sentences)) - 1) }

\* generate_mcqs_fallback with a loop that goes on past the first n sentences
\* until it has n questions
McqFallbackRefills(sentences, n) ==
    { Prefix(built, n) : built \in McqLoop(sentences, 1, Len(sentences)) }

\* generate_mcqs_fallback: the lists the call may return
generate_mcqs_fallback(sentences, n) ==
    { Prefix(built, n) : built \in McqLoop(sentences, 1, Min(n, Len(sentences))) }

(***************************************************************************)
(* parse_mcqs_from_text.  A line of the backend's answer is a token        *)
(* sequence: "q?" a question of more than 20 characters ending in '?',     *)
(* "?" a bare question mark, "A." an option letter with its dot, "answer"  *)
(* the word correct or answer, "o1", "o2" option texts.                    *)
(***************************************************************************)

MinQuestionLen == 20

Last(s) == s[Len(s)]

\* line.endswith('?') and len(line) > 20
IsQuestionLine(line) ==
    Last(line) \in {"?", "q?"} /\ SumLen(line) > MinQuestionLen

\* re.match(r'^[A-D][\.\)]\s*', line)
IsOptionLine(line) == Head(line) = "A."

\* re.sub(r'^[A-D][\.\)]\s*', '', line): the text after the letter, one token
OptionText(line) == IF Len(line) > 1 THEN line[2] ELSE ""

\* 'correct' in line.lower() or 'answer' in line.lower()
IsAnswerLine(line) == Contains(Lower(line), <<"answer">>)

\* option.lower() in line.lower()
Mentions(line, option) ==
    option = "" \/ Contains(Lower(line), <<LowerTok(option)>>)

\* the first option the line mentions, or the answer kept so far
FirstMentioned(line, options, kept) ==
    LET hits == { k \in 1..Len(options) : Mentions(line, options[k]) }
    IN  IF hits = {} THEN kept
        ELSE options[CHOOSE k \in hits : \A j \in hits : k <= j]

\* current_mcq = {}: a dict without keys
EmptyDict == [keys |-> {}]

\* "if current_mcq": the dict has keys
HasKeys(d) == DOMAIN d # {"keys"}

\* the loop of parse_mcqs_from_text from line i on, then the final append
RECURSIVE ParseLines(_, _, _, _)
ParseLines(lines, i, parsed, current_mcq) ==
    IF i > Len(lines)
    THEN IF HasKeys(current_mcq) THEN Append(parsed, current_mcq) ELSE parsed
    ELSE LET line == Strip(lines[i])
         IN  IF line = <<>> THEN ParseLines(lines, i + 1, parsed, current_mcq)
             ELSE IF IsQuestionLine(line)
             THEN ParseLines(lines, i + 1,
                      IF HasKeys(current_mcq) THEN Append(parsed, current_mcq) ELSE parsed,
                      [question |-> line, options |-> <<>>, correct_answer |-> "",
                       context |-> Context([toks |-> line, pad |-> 0])])
             ELSE IF IsOptionLine(line)
             THEN ParseLines(lines, i + 1, parsed,
                      IF HasKeys(current_mcq)
                      THEN [current_mcq EXCEPT
                              !.options = Append(@, OptionText(line))]
                      ELSE current_mcq)
             ELSE IF IsAnswerLine(line)
             THEN ParseLines(lines, i + 1, parsed,
                      IF HasKeys(current_mcq) /\ current_mcq.options # <<>>
                      THEN [current_mcq EXCEPT
                              !.correct_answer =
                                  FirstMentioned(line, current_mcq.options, @)]
                      ELSE current_mcq)
             ELSE ParseLines(lines, i + 1, parsed, current_mcq)

\* parse_mcqs_from_text
parse_mcqs_from_text(lines, n) == Prefix(ParseLines(lines, 1, <<>>, EmptyDict), n)

(***************************************************************************)
(* generate_mcqs.  groq says what the backend does when it is called:      *)
(* kind "absent" (no client), "raises" (the call or the reading of its     *)
(* answer raises) or "responds"; an answer says whether a JSON object parses   *)
(* out of it (has_json), the list under its "mcqs" key, and its lines.     *)
(***************************************************************************)

\* generate_mcqs: the lists the call may return
generate_mcqs(sentences, n, backend) ==
    IF backend.kind = "absent" THEN generate_mcqs_fallback(sentences, n)
    ELSE IF backend.kind = "raises" THEN generate_mcqs_fallback(sentences, n)
    ELSE IF backend.has_json THEN { backend.mcqs }
    ELSE { parse_mcqs_from_text(backend.lines, n) }

\* st.warning("Groq API error ... Using fallback method.")
GroqWarning(backend) == backend.kind = "raises"

(***************************************************************************)
(* generate_short_questions_fallback                                       *)
(***************************************************************************)

MinWordLen == 3
KeyConceptWindow == 3

question_starters ==
    <<"What is", "Define", "Explain briefly", "What are the main", "How does",
      "Why is", "What causes", "List the">>

\* the elements of a list
Range(s) == { s[i] : i \in 1..Len(s) }

\* words = word_tokenize(sentence), alphanumeric and longer than 3
ShortWords(sentence) ==
    LET IsLong(w) == IsAlnum(w) /\ TokLen(w) > MinWordLen
    IN  SelectSeq(sentence.toks, IsLong)

ShortSkips(sentence) ==
    \/ StrLen(sentence) < MinSentenceLen
    \/ ShortWords(sentence) = <<>>

\* f"{starter} {key_concept}." or f"{starter} {key_concept}?"
ShortQuestion(starter, key_concept) ==
    <<starter, key_concept, IF starter \in {"Define", "List the"} THEN "." ELSE "?">>

\* the questions one pass of the loop body may append for a sentence it keeps
ShortOf(sentence) ==
    LET words == ShortWords(sentence)
    IN  { ShortQuestion(starter, key_concept) :
            starter \in Range(question_starters),
            key_concept \in { words[k] : k \in 1..Min(KeyConceptWindow, Len(words)) } }

RECURSIVE ShortLoop(_, _, _)
ShortLoop(sentences, i, last) ==
    IF i > last THEN { <<>> }
    ELSE IF ShortSkips(sentences[i]) THEN ShortLoop(sentences, i + 1, last)
    ELSE { <<q>> \o rest : q \in ShortOf(sentences[i]),
                            rest \in ShortLoop(sentences, i + 1, last) }

\* generate_short_questions_fallback: the lists the call may return
generate_short_questions_fallback(sentences, n) ==
    { Prefix(qs, n) : qs \in ShortLoop(sentences, 1, Min(n, Len(sentences))) }

(***************************************************************************)
(* generate_long_questions_fallback                                        *)
(***************************************************************************)

PhraseSentences == 20
CommonPhrases == 10

question_templates ==
    <<"Discuss in detail about {}.",
      "Explain the concept of {} with examples.",
      "Analyze the importance of {} in the given context.",
      "Compare and contrast different aspects of {}.",
      "Evaluate the role of {} and its implications.",
      "Describe the process of {} step by step.",
      "Examine the relationship between {} and related concepts.">>

\* words = word_tokenize(sentence), alphanumeric, longer than 3, not stop words
LongWords(sentence) ==
    LET IsKey(w) == IsAlnum(w) /\ TokLen(w) > MinWordLen /\ LowerTok(w) \notin stop_words
    IN  SelectSeq(sentence.toks, IsKey)

\* f"{words[i]} {words[i+1]}" for i in range(len(words) - 1)
Bigrams(words) == [i \in 1..(Len(words) - 1) |-> <<words[i], words[i + 1]>>]

\* key_phrases: the bigrams of sentences[:20], in order
RECURSIVE KeyPhrases(_, _)
KeyPhrases(sentences, i) ==
    IF i > Min(PhraseSentences, Len(sentences)) THEN <<>>
    ELSE Bigrams(LongWords(sentences[i])) \o KeyPhrases(sentences, i + 1)

\* the number of times x occurs in s
Count(s, x) == Cardinality({ i \in 1..Len(s) : s[i] = x })

\* the keys of Counter(s): the distinct elements in first-seen order
RECURSIVE Distinct(_)
Distinct(s) ==
    IF s = <<>> THEN <<>>
    ELSE LET IsOther(x) == x # Head(s)
         IN  <<Head(s)>> \o Distinct(SelectSeq(Tail(s), IsOther))

\* sorted(keys, key=count, reverse=True): stable, so equal counts keep their order
RECURSIVE ByCount(_, _)
ByCount(keys, s) ==
    IF keys = <<>> THEN <<>>
    ELSE LET top == CHOOSE k \in 1..Len(keys) :
                      /\ \A j \in 1..Len(keys) : Count(s, keys[j]) <= Count(s, keys[k])
                      /\ \A j \in 1..(k - 1) : Count(s, keys[j]) < Count(s, keys[k])
             IsOther(x) == x # keys[top]
         IN  <<keys[top]>> \o ByCount(SelectSeq(keys, IsOther), s)

\* the distinct phrases in first-seen order, whatever their counts
FirstSeenPhrases(key_phrases) == Prefix(Distinct(key_phrases), CommonPhrases)

\* [phrase for phrase, count in Counter(key_phrases).most_common(10)]
MostCommon(key_phrases) == Prefix(ByCount(Distinct(key_phrases), key_phrases), CommonPhrases)

\* template.format(phrase)
LongQuestion(chosen, phrase) == <<chosen>> \o phrase

RECURSIVE LongLoop(_, _, _)
LongLoop(common_phrases, i, last) ==
    IF i > last THEN { <<>> }
    ELSE { <<LongQuestion(chosen, common_phrases[i])>> \o rest :
             chosen \in Range(question_templates),
             rest \in LongLoop(common_phrases, i + 1, last) }

\* generate_long_questions_fallback: the lists the call may return
generate_long_questions_fallback(sentences, n) ==
    LET common_phrases == MostCommon(KeyPhrases(sentences, 1))
    IN  { Prefix(qs, n) : qs \in LongLoop(common_phrases, 1, Min(n, Len(common_phrases))) }

\* random.choice(question_templates) at the k-th pass of the loop, for a random
\* generator in the state rng: the template at position start + (k - 1) * step
DrawnTemplate(rng, k) ==
    question_templates[((rng.start + (k - 1) * rng.step) % Len(question_templates)) + 1]

\* generate_long_questions_fallback with the random generator in the state rng
LongFallbackDrawn(sentences, n, rng) ==
    LET common_phrases == MostCommon(KeyPhrases(sentences, 1))
        last == Min(n, Len(common_phrases))
    IN  Prefix([k \in 1..last |-> LongQuestion(DrawnTemplate(rng, k), common_phrases[k])],
               n)

(***************************************************************************)
(* generate_short_questions and generate_long_questions.  A line of the    *)
(* backend's answer: "1." a number with its dot and blank, "-" a bullet,   *)
(* then the text.                                                          *)
(***************************************************************************)

\* line[0].isdigit() or line.startswith('-') or line.startswith(bullet)
IsListLine(line) == Head(line) \in {"1.", "-"}

\* re.sub(r'^\d+\.?\s*', '', line)
StripNumber(line) == IF line # <<>> /\ Head(line) = "1." THEN Tail(line) ELSE line

\* re.sub(r'^[-bullet]\s*', '', question)
StripBullet(line) == IF line # <<>> /\ Head(line) = "-" THEN Tail(line) ELSE line

\* the loop over response_text.split('\n')
RECURSIVE ListedQuestions(_)
ListedQuestions(lines) ==
    IF lines = <<>> THEN <<>>
    ELSE LET line == Strip(Head(lines))
             question == StripBullet(StripNumber(line))
         IN  (IF line # <<>> /\ IsListLine(line) /\ question # <<>>
              THEN <<question>> ELSE <<>>)
             \o ListedQuestions(Tail(lines))

\* generate_short_questions: the lists the call may return
generate_short_questions(sentences, n, backend) ==
    IF backend.kind = "absent" THEN generate_short_questions_fallback(sentences, n)
    ELSE IF backend.kind = "raises" THEN generate_short_questions_fallback(sentences, n)
    ELSE { Prefix(ListedQuestions(backend.lines), n) }

\* generate_long_questions: the lists the call may return
generate_long_questions(sentences, n, backend) ==
    IF backend.kind = "absent" THEN generate_long_questions_fallback(sentences, n)
    ELSE IF backend.kind = "raises" THEN generate_long_questions_fallback(sentences, n)
    ELSE { Prefix(ListedQuestions(backend.lines), n) }

(***************************************************************************)
(* Specification of the three generators alone.                            *)
(***************************************************************************)

MaxSent == 2
MaxCount == 3
MaxJson == 2
MaxRespLines == 3

\* sentences read alone: a repeated word in two cases; a stop word, a word twice
\* and more than 100 characters
RichSentences ==
    { [toks |-> <<"Cell", "cell", "atp", "cell", ".">>, pad |-> MinSentenceLen],
      [toks |-> <<"cell", "about", "atp", "atp">>, pad |-> ContextLen] }

\* sentences read in a row: one word three times; two content words;
\* fewer than 20 characters
PlainSentences ==
    { [toks |-> <<"atp", "atp", "atp">>, pad |-> MinSentenceLen],
      [toks |-> <<"cell", "atp", ".">>, pad |-> MinSentenceLen],
      [toks |-> <<"cell", "cell", "cell">>, pad |-> 0] }

Contents ==
    { <<sentence>> : sentence \in RichSentences } \cup SeqsUpTo(PlainSentences, MaxSent)

\* the dicts a JSON answer may list under "mcqs"
JsonMcqs ==
    { [question |-> <<"q?">>, options |-> <<"o1", "o2", "o3", "o4">>,
       correct_answer |-> "o1"],
      [question |-> <<"q?">>, options |-> <<"o1", "o2">>, correct_answer |-> "o3"] }

\* the lines of an answer in text
ResponseLines ==
    { <<"q?">>, <<"A.", "o1">>, <<"A.", "o2">>, <<"answer", "o2">>, <<"answer">>,
      <<"1.", "q">>, <<"-", "q">>, <<"1.">>, <<"q">> }

Absent == [kind |-> "absent", has_json |-> FALSE, mcqs |-> <<>>, lines |-> <<>>]

Raises == [kind |-> "raises", has_json |-> FALSE, mcqs |-> <<>>, lines |-> <<>>]

Responses ==
    { [kind |-> "responds", has_json |-> TRUE, mcqs |-> listed, lines |-> <<>>] :
        listed \in SeqsUpTo(JsonMcqs, MaxJson) }
    \cup
    { [kind |-> "responds", has_json |-> FALSE, mcqs |-> <<>>, lines |-> lines] :
        lines \in SeqsUpTo(ResponseLines, MaxRespLines) }

\* the content sent along when the backend answers
PromptContent == <<[toks |-> <<"atp", "atp", "atp">>, pad |-> MinSentenceLen]>>

GenInit ==
    /\ op = "init"
    /\ MainIdle
    /\ LocateIdle
    /\ WrongIdle
    /\ PaperIdle
    /\ num_questions \in 0..MaxCount
    /\ \/ groq \in {Absent, Raises} /\ content \in Contents
       \/ groq \in Responses /\ content = PromptContent
    /\ questions = None

GenerateMcqs ==
    /\ op = "init"
    /\ op' = "generate_mcqs"
    /\ questions' \in generate_mcqs(content, num_questions, groq)
    /\ UNCHANGED <<locVars, wrongVars, paperVars, mainVars, content, num_questions,
                   groq>>

GenerateShortQuestions ==
    /\ op = "init"
    /\ op' = "generate_short_questions"
    /\ questions' \in generate_short_questions(content, num_questions, groq)
    /\ UNCHANGED <<locVars, wrongVars, paperVars, mainVars, content, num_questions,
                   groq>>

GenerateLongQuestions ==
    /\ op = "init"
    /\ op' = "generate_long_questions"
    /\ questions' \in generate_long_questions(content, num_questions, groq)
    /\ UNCHANGED <<locVars, wrongVars, paperVars, mainVars, content, num_questions,
                   groq>>

GenNext == GenerateMcqs \/ GenerateShortQuestions \/ GenerateLongQuestions

SpecGen == GenInit /\ [][GenNext]_vars

(***************************************************************************)
(* format_question_paper.  The paper is the sequence of the pieces of text *)
(* the function concatenates.  A template is a record: given (an argument  *)
(* other than None was passed) and its text.                               *)
(***************************************************************************)

RuleWidth == 40

\* the default header block, with datetime.now() as '%Y-%m-%d'
DefaultHeader == <<"\nQUESTION PAPER\n", "Date: ", "YYYY-MM-DD", "Instructions:", "\n\n">>

SectionA == "\nSECTION A: MULTIPLE CHOICE QUESTIONS\n"
SectionB == "\nSECTION B: SHORT ANSWER QUESTIONS\n"
SectionC == "\nSECTION C: LONG ANSWER QUESTIONS\n"

\* "=" * 40 + "\n\n"
Rule == <<"=", ToString(RuleWidth), "\n\n">>

\* chr(65 + j)
Letter(j) == <<"A", "B", "C", "D", "E", "F", "G", "H">>[j + 1]

\* the template's header with the template's white space stripped
StrippedTemplateHeader(tpl) ==
    IF tpl.given /\ tpl.text # <<>> /\ Strip(tpl.text) # <<>>
    THEN Strip(tpl.text) \o <<"\n\n">>
    ELSE DefaultHeader

\* if template and template.strip(): paper = template + "\n\n", else the default
Header(tpl) ==
    IF tpl.given /\ tpl.text # <<>> /\ Strip(tpl.text) # <<>>
    THEN tpl.text \o <<"\n\n">>
    ELSE DefaultHeader

\* f"    {chr(65+j)}. {option}\n" for j, option in enumerate(mcq['options'])
RECURSIVE OptionLines(_, _)
OptionLines(options, j) ==
    IF j >= Len(options) THEN <<>>
    ELSE <<"    ", Letter(j), ". ", options[j + 1], "\n">> \o OptionLines(options, j + 1)

\* the loop over enumerate(mcqs, 1)
RECURSIVE McqLines(_, _)
McqLines(ms, i) ==
    IF i > Len(ms) THEN <<>>
    ELSE <<"Q", ToString(i), ". ">> \o ms[i].question \o <<"\n">>
         \o OptionLines(ms[i].options, 0) \o <<"\n">> \o McqLines(ms, i + 1)

\* the loop over enumerate(questions, 1)
RECURSIVE QuestionLines(_, _)
QuestionLines(qs, i) ==
    IF i > Len(qs) THEN <<>>
    ELSE <<"Q", ToString(i), ". ">> \o qs[i] \o <<"\n\n">> \o QuestionLines(qs, i + 1)

\* Sections with every heading written, also over an empty list
SectionsAlways(ms, shorts, longs) ==
    <<SectionA>> \o Rule \o McqLines(ms, 1)
    \o <<SectionB>> \o Rule \o QuestionLines(shorts, 1)
    \o <<SectionC>> \o Rule \o QuestionLines(longs, 1)

\* the three "if <list>:" blocks, in the order of the code
Sections(ms, shorts, longs) ==
    (IF ms # <<>> THEN <<SectionA>> \o Rule \o McqLines(ms, 1) ELSE <<>>)
    \o (IF shorts # <<>> THEN <<SectionB>> \o Rule \o QuestionLines(shorts, 1) ELSE <<>>)
    \o (IF longs # <<>> THEN <<SectionC>> \o Rule \o QuestionLines(longs, 1) ELSE <<>>)

format_question_paper(ms, shorts, longs, tpl) ==
    Header(tpl) \o Sections(ms, shorts, longs)

(***************************************************************************)
(* Specification of generate_long_questions_fallback alone, on slices with *)
(* more than 10 distinct phrases and more than 20 sentences as well.  The  *)
(* random generator is an input: a start and a step through the templates. *)
(***************************************************************************)

MaxLongSent == 3
MaxLongCount == 11

\* a sentence of words, as word_tokenize returns them
Words(toks) == [toks |-> toks, pad |-> 0]

\* two words; the same in the other order; three words with both phrases; a
\* stop word and a short word between the two
LongSentences ==
    { Words(<<"cell", "gene">>), Words(<<"gene", "cell">>),
      Words(<<"cell", "gene", "cell">>), Words(<<"about", "cell", "atp", "gene">>) }

\* one sentence with the 16 phrases of four words, two of them twice
WideContent ==
    << Words(<<"cell", "cell", "gene", "cell", "wall", "cell", "Cell", "gene", "gene",
               "wall", "gene", "Cell", "wall", "wall", "Cell", "Cell", "cell", "Cell",
               "Cell">>) >>

\* 20 sentences with one phrase, and a 21st with another
DeepContent ==
    [i \in 1..(PhraseSentences + 1) |->
        IF i <= PhraseSentences THEN Words(<<"cell", "gene">>)
        ELSE Words(<<"gene", "wall">>)]

LongContents == SeqsUpTo(LongSentences, MaxLongSent) \cup {WideContent, DeepContent}

Rngs == [start : 0..(Len(question_templates) - 1), step : {0, 1}]

LongInit ==
    /\ op = "init"
    /\ MainIdle
    /\ LocateIdle
    /\ WrongIdle
    /\ PaperIdle
    /\ content \in LongContents
    /\ num_questions \in 0..MaxLongCount
    /\ groq = Absent
    /\ questions = None

GenerateLongQuestionsFallback ==
    /\ op = "init"
    /\ op' = "generate_long_questions_fallback"
    /\ \E rng \in Rngs : questions' = LongFallbackDrawn(content, num_questions, rng)
    /\ UNCHANGED <<locVars, wrongVars, paperVars, mainVars, content, num_questions,
                   groq>>

LongNext == GenerateLongQuestionsFallback

SpecLong == LongInit /\ [][LongNext]_vars

(***************************************************************************)
(* Specification of the paper formatter alone.                             *)
(***************************************************************************)

MaxItems == 2
MaxTemplateLen == 2

\* a question of the fallback synthesizer with three options, one of a JSON answer
FormatMcqs ==
    { [question |-> <<"______", "atp", "atp">>,
       options |-> <<"Not specified", "Atp", "None of the above">>,
       correct_answer |-> "Atp",
       context |-> Context([toks |-> <<"atp", "atp", "atp">>, pad |-> MinSentenceLen])],
      [question |-> <<"q?">>, options |-> <<"o1", "o2", "o3", "o4">>,
       correct_answer |-> "o1"] }

FormatShorts == { ShortQuestion("Define", "cell") }

FormatLongs == { LongQuestion("Discuss in detail about {}.", <<"cell", "cell">>) }

NoTemplate == [given |-> FALSE, text |-> <<>>]

Templates ==
    {NoTemplate}
    \cup { [given |-> TRUE, text |-> text] : text \in SeqsUpTo({" ", "x"}, MaxTemplateLen) }

FormatInit ==
    /\ op = "init"
    /\ MainIdle
    /\ LocateIdle
    /\ WrongIdle
    /\ GenIdle
    /\ mcqs \in SeqsUpTo(FormatMcqs, MaxItems)
    /\ short_questions \in SeqsUpTo(FormatShorts, MaxItems)
    /\ long_questions \in SeqsUpTo(FormatLongs, MaxItems)
    /\ template \in Templates
    /\ formatted_paper = None

FormatQuestionPaper ==
    /\ op = "init"
    /\ op' = "format_question_paper"
    /\ formatted_paper' =
          format_question_paper(mcqs, short_questions, long_questions, template)
    /\ UNCHANGED <<locVars, wrongVars, genVars, mainVars, mcqs, short_questions,
                   long_questions, template>>

FormatNext == FormatQuestionPaper

SpecFormat == FormatInit /\ [][FormatNext]_vars

(***************************************************************************)
(* main: one press of the generate button on an uploaded textbook.  The    *)
(* document is read with one sentence to a line; sent_tokenize and         *)
(* word_tokenize are the library's, given here as a table over the lines.  *)
(***************************************************************************)

TopicError == "error: Please enter a topic or chapter name!"
TextError == "error: Could not extract text from the uploaded file!"
ContentWarning == "warning: Could not find specific content for the topic."
McqWarning == "warning: Groq API error (mcqs). Using fallback method."
ShortWarning == "warning: Groq API error (short). Using fallback method."
LongWarning == "warning: Groq API error (long). Using fallback method."

\* the sentences of one line of the document, as the tokenizers return them
LineSentences(line) ==
    CASE line = <<"x">> -> <<[toks |-> <<"atp", "atp", "atp">>, pad |-> MinSentenceLen]>>
      [] line = <<"y">> -> <<[toks |-> <<"cell", "cell">>, pad |-> 0]>>
      [] line = <<"h", " ", "T">> -> <<[toks |-> <<"cell", "atp", ".">>, pad |-> MinSentenceLen]>>
      [] OTHER -> <<>>

RECURSIVE TextSentences(_)
TextSentences(lines) ==
    IF lines = <<>> THEN <<>>
    ELSE LineSentences(Head(lines)) \o TextSentences(Tail(lines))

\* not topic_content.strip()
IsBlankSlice(slice) ==
    IF slice.sep = " " THEN slice.parts = <<>> ELSE IsBlankText(slice.parts)

\* sent_tokenize(content) in the generators, on the string main hands them
SliceSentences(slice) ==
    IF slice.sep = " " THEN slice.parts ELSE TextSentences(slice.parts)

\* topic_content after "if not topic_content.strip(): topic_content = full_text[:5000]"
TopicContent(lines, sentences, tp) ==
    LET located == find_topic_content(lines, sentences, tp)
    IN  IF IsBlankSlice(located) THEN [sep |-> "\n", parts |-> lines] ELSE located

\* the st.warning calls of a request that reaches the generators
Warnings(lines, sentences, tp, req) ==
    (IF IsBlankSlice(find_topic_content(lines, sentences, tp))
     THEN <<ContentWarning>> ELSE <<>>)
    \o (IF req.num_mcqs > 0 /\ GroqWarning(req.backend.mcqs) THEN <<McqWarning>> ELSE <<>>)
    \o (IF req.num_short > 0 /\ GroqWarning(req.backend.short) THEN <<ShortWarning>> ELSE <<>>)
    \o (IF req.num_long > 0 /\ GroqWarning(req.backend.long) THEN <<LongWarning>> ELSE <<>>)

\* a failing call answered with no question at all
McqsNoFallback(sentences, req) ==
    IF req.num_mcqs > 0 /\ req.backend.mcqs.kind # "raises"
    THEN generate_mcqs(sentences, req.num_mcqs, req.backend.mcqs)
    ELSE {<<>>}

\* generator.generate_mcqs(topic_content, num_mcqs) if num_mcqs > 0 else []
McqsOfRequest(sentences, req) ==
    IF req.num_mcqs > 0 THEN generate_mcqs(sentences, req.num_mcqs, req.backend.mcqs)
    ELSE {<<>>}

ShortsOfRequest(sentences, req) ==
    IF req.num_short > 0
    THEN generate_short_questions(sentences, req.num_short, req.backend.short)
    ELSE {<<>>}

LongsOfRequest(sentences, req) ==
    IF req.num_long > 0
    THEN generate_long_questions(sentences, req.num_long, req.backend.long)
    ELSE {<<>>}

(***************************************************************************)
(* Specification of one generate request.                                  *)
(***************************************************************************)

MaxDocLines == 2
MaxAsked == 1

RequestLines == { <<"x">>, <<"y">>, <<"h", " ", "T">> }

\* the documents uploaded: at most one line the MCQ fallback keeps
RequestTexts ==
    { lines \in SeqsUpTo(RequestLines, MaxDocLines) : Count(lines, <<"x">>) <= 1 }

RequestTopics == { <<"T">>, <<" ">> }

\* template_text = "" with no template file uploaded
RequestTemplates == { [given |-> TRUE, text |-> <<>>] }

\* the backend's answer to a call: one question in JSON, one in a numbered line
Answer ==
    [kind |-> "responds", has_json |-> TRUE,
     mcqs |-> <<[question |-> <<"q?">>, options |-> <<"o1", "o2", "o3", "o4">>,
                 correct_answer |-> "o1"]>>,
     lines |-> <<<<"1.", "q">>>>]

\* no client at all, or a client whose calls each fail or answer
Backends ==
    { [mcqs |-> Absent, short |-> Absent, long |-> Absent] }
    \cup [mcqs : {Raises, Answer}, short : {Raises, Answer}, long : {Raises, Answer}]

Requests ==
    [num_mcqs : 0..MaxAsked, num_short : 0..MaxAsked, num_long : 0..MaxAsked,
     backend : Backends]

RequestInit ==
    /\ op = "init"
    /\ WrongIdle
    /\ full_text \in RequestTexts
    /\ doc_sentences = TextSentences(full_text)
    /\ topic \in RequestTopics
    /\ topic_content = None
    /\ content = None
    /\ num_questions = None
    /\ groq = None
    /\ questions = None
    /\ mcqs = None
    /\ short_questions = None
    /\ long_questions = None
    /\ template \in RequestTemplates
    /\ formatted_paper = None
    /\ request \in Requests
    /\ messages = <<>>
    /\ session_state = NoSession
    /\ calls = <<>>
    /\ displayed = NoPaper

\* the methods a request that reaches the generators calls, in order
GenerateCalls(req) ==
    <<"extract_text", "find_topic_content">>
    \o (IF req.num_mcqs > 0 THEN <<"generate_mcqs">> ELSE <<>>)
    \o (IF req.num_short > 0 THEN <<"generate_short_questions">> ELSE <<>>)
    \o (IF req.num_long > 0 THEN <<"generate_long_questions">> ELSE <<>>)
    \o <<"format_question_paper", "create_docx_output">>

\* if not topic_input.strip(): st.error(...); return
AbortNoTopic ==
    /\ op = "init"
    /\ Strip(topic) = <<>>
    /\ op' = "main"
    /\ messages' = <<TopicError>>
    /\ calls' = <<>>
    /\ displayed' = NoPaper
    /\ UNCHANGED <<locVars, wrongVars, genVars, paperVars, request, session_state>>

\* if not full_text.strip(): st.error(...); return
AbortNoText ==
    /\ op = "init"
    /\ Strip(topic) # <<>>
    /\ IsBlankText(full_text)
    /\ op' = "main"
    /\ messages' = <<TextError>>
    /\ calls' = <<"extract_text">>
    /\ displayed' = NoPaper
    /\ UNCHANGED <<locVars, wrongVars, genVars, paperVars, request, session_state>>

\* the rest of the branch: locate, generate each type, format, store
GeneratePaper ==
    /\ op = "init"
    /\ Strip(topic) # <<>>
    /\ ~IsBlankText(full_text)
    /\ LET slice == TopicContent(full_text, doc_sentences, topic)
           sentences == SliceSentences(slice)
           mcq_lists == McqsOfRequest(sentences, request)
           short_lists == ShortsOfRequest(sentences, request)
           long_lists == LongsOfRequest(sentences, request)
       IN  \E ms \in mcq_lists, shorts \in short_lists, longs \in long_lists :
              LET paper == format_question_paper(ms, shorts, longs, template)
              IN  /\ op' = "main"
                  /\ topic_content' = slice
                  /\ content' = sentences
                  /\ mcqs' = ms
                  /\ short_questions' = shorts
                  /\ long_questions' = longs
                  /\ formatted_paper' = paper
                  /\ session_state' =
                        [formatted_paper |-> paper, mcqs |-> ms,
                         short_questions |-> shorts, long_questions |-> longs]
                  /\ displayed' = paper
    /\ messages' = Warnings(full_text, doc_sentences, topic, request)
    /\ calls' = GenerateCalls(request)
    /\ UNCHANGED <<full_text, doc_sentences, topic, wrongVars, num_questions, groq,
                   questions, template, request>>

RequestNext == AbortNoTopic \/ AbortNoText \/ GeneratePaper

SpecRequest == RequestInit /\ [][RequestNext]_vars

(***************************************************************************)
(* A session: main is run again on every press of a button or change of a  *)
(* widget, and st.session_state is what one run leaves to the next.        *)
(***************************************************************************)

\* hasattr(st.session_state, 'formatted_paper')
HasPaper(session) == "formatted_paper" \in DOMAIN session

\* the preview of a run that reaches "if hasattr(st.session_state, ...)"
Preview(session) == IF HasPaper(session) THEN session.formatted_paper ELSE NoPaper

\* the methods such a run calls for the download tab
PreviewCalls(session) == IF HasPaper(session) THEN <<"create_docx_output">> ELSE <<>>

\* the names of the generate branch are not bound in a run that leaves it early
NothingGenerated ==
    /\ topic_content' = None
    /\ content' = None
    /\ mcqs' = None
    /\ short_questions' = None
    /\ long_questions' = None
    /\ formatted_paper' = None

SessionLines == { <<"y">>, <<"h", " ", "T">> }

\* the text extracted from the upload: none, or one line
SessionTexts == { <<>> } \cup { <<line>> : line \in SessionLines }

\* no client at all, or a client whose calls all answer
SessionBackends ==
    { [mcqs |-> Absent, short |-> Absent, long |-> Absent],
      [mcqs |-> Answer, short |-> Answer, long |-> Answer] }

\* the same count asked of each type
SessionRequests ==
    { [num_mcqs |-> n, num_short |-> n, num_long |-> n, backend |-> backend] :
        n \in 0..MaxAsked, backend \in SessionBackends }

SessionInit ==
    /\ op = "init"
    /\ WrongIdle
    /\ full_text = <<>>
    /\ doc_sentences = <<>>
    /\ topic = <<>>
    /\ topic_content = None
    /\ content = None
    /\ num_questions = None
    /\ groq = None
    /\ questions = None
    /\ mcqs = None
    /\ short_questions = None
    /\ long_questions = None
    /\ template \in RequestTemplates
    /\ formatted_paper = None
    /\ request \in { req \in SessionRequests :
                       req.num_mcqs = 0 /\ req.num_short = 0 /\ req.num_long = 0 }
    /\ messages = <<>>
    /\ session_state = NoSession
    /\ calls = <<>>
    /\ displayed = NoPaper

\* a run with no textbook uploaded: st.info(...) and return
RunWithoutTextbook ==
    /\ op' = "no_textbook"
    /\ NothingGenerated
    /\ messages' = <<>>
    /\ calls' = <<>>
    /\ displayed' = NoPaper
    /\ UNCHANGED <<full_text, doc_sentences, topic, wrongVars, num_questions, groq,
                   questions, template, request, session_state>>

\* a run with the generate button not pressed
Rerun ==
    /\ op' = "rerun"
    /\ NothingGenerated
    /\ messages' = <<>>
    /\ calls' = PreviewCalls(session_state)
    /\ displayed' = Preview(session_state)
    /\ UNCHANGED <<full_text, doc_sentences, topic, wrongVars, num_questions, groq,
                   questions, template, request, session_state>>

\* a press of a download button of the preview: the file goes to the caller
\* and main runs again with the generate button not pressed
Download ==
    /\ displayed # NoPaper
    /\ op' = "download"
    /\ NothingGenerated
    /\ messages' = <<>>
    /\ calls' = PreviewCalls(session_state)
    /\ displayed' = Preview(session_state)
    /\ UNCHANGED <<full_text, doc_sentences, topic, wrongVars, num_questions, groq,
                   questions, template, request, session_state>>

\* a press of the generate button with a blank topic
GenerateNoTopic ==
    \E tp \in RequestTopics, lines \in SessionTexts, req \in SessionRequests :
        /\ Strip(tp) = <<>>
        /\ op' = "generate"
        /\ topic' = tp
        /\ full_text' = lines
        /\ doc_sentences' = TextSentences(lines)
        /\ request' = req
        /\ NothingGenerated
        /\ messages' = <<TopicError>>
        /\ calls' = <<>>
        /\ displayed' = NoPaper
        /\ UNCHANGED <<wrongVars, num_questions, groq, questions, template,
                       session_state>>

\* the same press, the stored paper dropped with it
GenerateNoTextForgets ==
    \E tp \in RequestTopics, lines \in SessionTexts, req \in SessionRequests :
        /\ Strip(tp) # <<>>
        /\ IsBlankText(lines)
        /\ op' = "generate"
        /\ topic' = tp
        /\ full_text' = lines
        /\ doc_sentences' = TextSentences(lines)
        /\ request' = req
        /\ NothingGenerated
        /\ messages' = <<TextError>>
        /\ calls' = <<"extract_text">>
        /\ displayed' = NoPaper
        /\ session_state' = NoSession
        /\ UNCHANGED <<wrongVars, num_questions, groq, questions, template>>

\* a press of the generate button on an upload that gives no text
GenerateNoText ==
    \E tp \in RequestTopics, lines \in SessionTexts, req \in SessionRequests :
        /\ Strip(tp) # <<>>
        /\ IsBlankText(lines)
        /\ op' = "generate"
        /\ topic' = tp
        /\ full_text' = lines
        /\ doc_sentences' = TextSentences(lines)
        /\ request' = req
        /\ NothingGenerated
        /\ messages' = <<TextError>>
        /\ calls' = <<"extract_text">>
        /\ displayed' = NoPaper
        /\ UNCHANGED <<wrongVars, num_questions, groq, questions, template,
                       session_state>>

\* a press of the generate button that reaches the generators
Generate ==
    \E tp \in RequestTopics, lines \in SessionTexts, req \in SessionRequests :
        /\ Strip(tp) # <<>>
        /\ ~IsBlankText(lines)
        /\ LET slice == TopicContent(lines, TextSentences(lines), tp)
               sentences == SliceSentences(slice)
               mcq_lists == McqsOfRequest(sentences, req)
               short_lists == ShortsOfRequest(sentences, req)
               long_lists == LongsOfRequest(sentences, req)
           IN  \E ms \in mcq_lists, shorts \in short_lists, longs \in long_lists :
                  LET paper == format_question_paper(ms, shorts, longs, template)
                  IN  /\ op' = "generate"
                      /\ topic_content' = slice
                      /\ content' = sentences
                      /\ mcqs' = ms
                      /\ short_questions' = shorts
                      /\ long_questions' = longs
                      /\ formatted_paper' = paper
                      /\ session_state' =
                            [formatted_paper |-> paper, mcqs |-> ms,
                             short_questions |-> shorts, long_questions |-> longs]
                      /\ displayed' = paper
        /\ topic' = tp
        /\ full_text' = lines
        /\ doc_sentences' = TextSentences(lines)
        /\ request' = req
        /\ messages' = Warnings(lines, TextSentences(lines), tp, req)
        /\ calls' = GenerateCalls(req)
        /\ UNCHANGED <<wrongVars, num_questions, groq, questions, template>>

SessionNext ==
    \/ RunWithoutTextbook
    \/ Rerun
    \/ Download
    \/ GenerateNoTopic
    \/ GenerateNoText
    \/ Generate

SpecSession == SessionInit /\ [][SessionNext]_vars

(***************************************************************************)
(* Claims about the paper formatter.                                       *)
(***************************************************************************)

Formatted == op = "format_question_paper"

\* the positions of a piece of text in the paper
Places(piece) == { i \in 1..Len(formatted_paper) : formatted_paper[i] = piece }

\* the paper begins with s
BeginsWith(s) ==
    Len(formatted_paper) >= Len(s) /\ SubSeq(formatted_paper, 1, Len(s)) = s

\* C9: format_question_paper writes the heading of Section A, B or C if and only
\* if the list of multiple-choice, short or long questions is not empty, and the
\* headings written come once each, in the order A, B, C, after the header.
C9_SectionsIffNonEmpty ==
    Formatted =>
        /\ (Places(SectionA) # {}) <=> (mcqs # <<>>)
        /\ (Places(SectionB) # {}) <=> (short_questions # <<>>)
        /\ (Places(SectionC) # {}) <=> (long_questions # <<>>)
        /\ \A a \in Places(SectionA), b \in Places(SectionB) : a < b
        /\ \A b \in Places(SectionB), c \in Places(SectionC) : b < c
        /\ \A a \in Places(SectionA), c \in Places(SectionC) : a < c
        /\ \A h \in {SectionA, SectionB, SectionC} :
              /\ Cardinality(Places(h)) <= 1
              /\ \A i \in Places(h) : i > Len(Header(template))

\* a paper with Section A and Section C and no Section B
C9_Witness ==
    /\ Formatted
    /\ mcqs # <<>> /\ short_questions = <<>> /\ long_questions # <<>>
    /\ Places(SectionA) # {} /\ Places(SectionB) = {} /\ Places(SectionC) # {}

\* C10 as stated: for any non-empty template string, also one made only of white
\* space, the paper begins with that exact string; the default header is used
\* only when the template is absent or the empty string.
C10_TemplateVerbatim ==
    Formatted =>
        IF template.given /\ template.text # <<>>
        THEN BeginsWith(template.text)
        ELSE BeginsWith(DefaultHeader)

\* the template holds a character that is not white space
NonBlank(tpl) == tpl.given /\ \E i \in 1..Len(tpl.text) : ~IsSpace(tpl.text[i])

\* C10 as amended: for any template string holding a character that is not white
\* space the paper begins with that exact string, followed by a blank line; the
\* default header is used when the template is absent, empty or only white space.
C10_NonBlankTemplateVerbatim ==
    Formatted =>
        IF NonBlank(template)
        THEN BeginsWith(template.text \o <<"\n\n">>)
        ELSE BeginsWith(DefaultHeader)

\* a template that starts with white space and is kept as it is
C10_Witness ==
    /\ Formatted
    /\ NonBlank(template)
    /\ IsSpace(template.text[1])
    /\ BeginsWith(template.text)

(***************************************************************************)
(* Claims about the generators.                                            *)
(***************************************************************************)

Generated == op \in {"generate_mcqs", "generate_short_questions", "generate_long_questions"}

\* the call ran the fallback synthesizer
FellBack == groq.kind \in {"absent", "raises"}

\* C1: every multiple-choice question generate_mcqs returns, from the fallback
\* synthesizer, from the backend's JSON answer or from parse_mcqs_from_text, has a
\* correct_answer that is one of its options.
C1_CorrectAnswerInOptions ==
    op = "generate_mcqs" =>
        \A k \in 1..Len(questions) :
            questions[k].correct_answer \in Range(questions[k].options)

\* C2: every multiple-choice question generate_mcqs returns has exactly 4 options,
\* also for a sentence whose content words are all the same word.
C2_FourOptions ==
    op = "generate_mcqs" =>
        \A k \in 1..Len(questions) : Len(questions[k].options) = 4

\* C3: each of the three generators returns at most the requested number of
\* questions, from the backend's answer as from the fallback synthesizer.
C3_AtMostRequested == Generated => Len(questions) <= num_questions

\* C4 as stated: a fallback synthesizer whose pool (the sentences of the slice,
\* the candidate key phrases for long-answer questions) holds at least the
\* requested count returns exactly that many questions.
C4_ExactWhenPoolSuffices ==
    (Generated /\ FellBack) =>
        LET pool == IF op = "generate_long_questions"
                    THEN Len(MostCommon(KeyPhrases(content, 1)))
                    ELSE Len(content)
        IN  pool >= num_questions => Len(questions) = num_questions

\* the sentence at position i is skipped by the synthesizer that ran
Skipped(i) ==
    IF op = "generate_mcqs" THEN McqSkips(content[i]) ELSE ShortSkips(content[i])

\* C4 as amended: the long-answer synthesizer returns exactly the requested count
\* when there are at least that many candidate key phrases; the multiple-choice
\* and short-answer synthesizers return exactly the requested count when the
\* slice holds at least that many sentences and none of the first n is skipped.
C4_ExactWhenNoneSkipped ==
    (Generated /\ FellBack) =>
        IF op = "generate_long_questions"
        THEN Len(MostCommon(KeyPhrases(content, 1))) >= num_questions
                => Len(questions) = num_questions
        ELSE (/\ Len(content) >= num_questions
              /\ \A i \in 1..num_questions : ~Skipped(i))
                => Len(questions) = num_questions

\* two sentences, two requested, none skipped, two multiple-choice questions
C4_Witness ==
    /\ op = "generate_mcqs"
    /\ FellBack
    /\ num_questions = 2
    /\ Len(content) >= 2
    /\ \A i \in 1..2 : ~McqSkips(content[i])
    /\ Len(questions) = 2

(***************************************************************************)
(* Claims about the distractor generator.                                  *)
(***************************************************************************)

\* C5: generate_wrong_answers returns exactly 3 strings for every correct answer
\* and every word pool, also a pool with no word other than the correct answer.
C5_ExactlyThree ==
    op = "generate_wrong_answers" => Len(wrong_answers) = 3

(***************************************************************************)
(* Claims about the topic locator.                                         *)
(***************************************************************************)

\* the line contains the topic, as the locator compares them: case-insensitively,
\* on the line without its leading and trailing white space
LineHasTopic(line, tp) == Contains(Strip(Lower(line)), Lower(tp))

\* a chapter/unit/section number heading that does not contain the topic
ForeignHeading(line, tp) ==
    Contains(Lower(line), <<"h">>) /\ ~LineHasTopic(line, tp)

TopicLines == { i \in 1..Len(full_text) : LineHasTopic(full_text[i], topic) }

FirstTopicLine == CHOOSE i \in TopicLines : \A j \in TopicLines : i <= j

\* the first foreign heading after the first topic line, or one past the end
SliceEnd ==
    LET ends == { j \in (FirstTopicLine + 1)..Len(full_text) :
                    ForeignHeading(full_text[j], topic) }
    IN  IF ends = {} THEN Len(full_text) + 1
        ELSE CHOOSE j \in ends : \A k \in ends : j <= k

C7_LeadingSentences ==
    (op = "find_topic_content" /\ TopicLines = {}) =>
        /\ topic_content.sep = " "
        /\ Len(topic_content.parts) = Min(SentenceCap, Len(doc_sentences))
        /\ \A i \in 1..Len(topic_content.parts) :
              topic_content.parts[i] = doc_sentences[i]

\* no line matches and the document has more than 50 sentences
C7_Witness ==
    /\ op = "find_topic_content"
    /\ TopicLines = {}
    /\ Len(doc_sentences) > SentenceCap
    /\ Len(topic_content.parts) = SentenceCap

(***************************************************************************)
(* Claims about a generate request.                                        *)
(***************************************************************************)

\* the request went past both aborts
RequestRan == op = "main" /\ Strip(topic) # <<>> /\ ~IsBlankText(full_text)

Failing(backend) == backend.kind \in {"absent", "raises"}

\* the sentences of the slice the request works on
RequestSlice == SliceSentences(TopicContent(full_text, doc_sentences, topic))

\* the sentences of the first n the MCQ loop does not skip
McqKept(sentences, n) ==
    LET Keeps(sentence) == ~McqSkips(sentence)
    IN  SelectSeq(Prefix(sentences, n), Keeps)

\* the same elements, each as many times
IsShuffleOf(options, listed) ==
    /\ Len(options) = Len(listed)
    /\ \A i \in 1..Len(listed) : Count(options, listed[i]) = Count(listed, listed[i])

\* a question the fallback synthesizer may write for a sentence: a key word among
\* the first five content words, blanked in the sentence, with its title-cased
\* form as the answer and shuffled among the wrong answers drawn for it
IsMcqOf(mcq, sentence) ==
    LET words == McqWords(sentence)
    IN  \E k \in 1..Min(KeyWordWindow, Len(words)) :
           /\ mcq.correct_answer = TitleTok(words[k])
           /\ mcq.question = QuestionText(sentence, words[k])
           /\ mcq.context = Context(sentence)
           /\ \E wrong \in generate_wrong_answers(TitleTok(words[k]), words) :
                 IsShuffleOf(mcq.options, <<TitleTok(words[k])>> \o wrong)

\* one question of the fallback synthesizer for each sentence it keeps, in order
IsMcqFallback(listed, sentences, n) ==
    LET kept == McqKept(sentences, n)
    IN  /\ Len(listed) = Len(kept)
        /\ \A k \in 1..Len(kept) :
              "context" \in DOMAIN listed[k] /\ IsMcqOf(listed[k], kept[k])

SameSession(a, b) == DOMAIN a = DOMAIN b /\ (DOMAIN a # {} => a = b)

\* the steps of a request after the two checks of its inputs
GenerationSteps ==
    {"find_topic_content", "generate_mcqs", "generate_short_questions",
     "generate_long_questions", "format_question_paper"}

\* C11: a press of the generate button with a blank topic, or on an upload
\* that gives no text, shows the error, runs no topic location, question
\* generation or formatting, and leaves the paper and the question sets stored
\* by an earlier request as they were.
C11_AbortKeepsSession ==
    [][ (op' = "generate" /\ (Strip(topic') = <<>> \/ IsBlankText(full_text')))
          => /\ \A i \in 1..Len(calls') : calls'[i] \notin GenerationSteps
             /\ SameSession(session_state', session_state)
             /\ messages' \in {<<TopicError>>, <<TextError>>}
             /\ displayed' = NoPaper ]_vars

\* a request aborted for want of text, with a paper of an earlier request
\* still stored
C11_Witness ==
    /\ op = "generate"
    /\ Strip(topic) # <<>>
    /\ IsBlankText(full_text)
    /\ messages = <<TextError>>
    /\ calls = <<"extract_text">>
    /\ HasPaper(session_state)
    /\ Len(session_state.short_questions) > 0


\* C12: a request with a non-blank topic and a non-blank text of which no line
\* matches the topic shows the "could not find specific content" warning and
\* writes its questions from the leading sentences of the document.
C12_WarnsWhenNotLocated ==
    (RequestRan /\ \A i \in 1..Len(full_text) : ~LineHasTopic(full_text[i], topic))
        => /\ \E i \in 1..Len(messages) : messages[i] = ContentWarning
           /\ content = FirstSentences(doc_sentences)


(***************************************************************************)
(* Claims about the fallback synthesizers.                                 *)
(***************************************************************************)

McqFellBack == op = "generate_mcqs" /\ FellBack

\* sentence[:100]
CutToContextLen(sentence) ==
    [of |-> sentence, chars |-> Min(StrLen(sentence), ContextLen), ellipsis |-> FALSE]

\* sentence[:100] followed by "..." when the sentence is longer
CutWithEllipsis(sentence) ==
    [of |-> sentence, chars |-> Min(StrLen(sentence), ContextLen),
     ellipsis |-> StrLen(sentence) > ContextLen]

\* C13 as stated: the questions of generate_mcqs_fallback are one for each of
\* the first n sentences that is not skipped, in sentence order, none from a
\* later sentence, and the context of each is its sentence cut to its first 100
\* characters.
C13_ContextIsCut ==
    McqFellBack =>
        LET kept == McqKept(content, num_questions)
        IN  /\ Len(questions) = Len(kept)
            /\ \A k \in 1..Len(kept) : questions[k].context = CutToContextLen(kept[k])

\* C13 amended: the same, the context being the sentence itself when it has at
\* most 100 characters and its first 100 characters followed by "..." otherwise.
C13_ContextCutWithEllipsis ==
    McqFellBack =>
        LET kept == McqKept(content, num_questions)
        IN  /\ Len(questions) = Len(kept)
            /\ \A k \in 1..Len(kept) :
                  /\ questions[k].context = CutWithEllipsis(kept[k])
                  /\ \E w \in Range(McqWords(kept[k])) :
                        /\ questions[k].correct_answer = TitleTok(w)
                        /\ questions[k].question = QuestionText(kept[k], w)

\* a question written from a sentence of more than 100 characters
C13_Witness ==
    /\ McqFellBack
    /\ num_questions > 0
    /\ Len(content) = 1
    /\ StrLen(content[1]) > ContextLen
    /\ Len(questions) = 1
    /\ questions[1].context.ellipsis

\* two sentences asked for, the first skipped, and one question returned
C13_SkipWitness ==
    /\ McqFellBack
    /\ num_questions = 1
    /\ Len(content) = 2
    /\ McqSkips(content[1])
    /\ ~McqSkips(content[2])
    /\ questions = <<>>


\* the sentences the phrases are taken from
PhraseScope == Prefix(content, PhraseSentences)

\* the phrases of some sentences, sentence after sentence, each as often as it
\* occurs
RECURSIVE ScopePhrases(_)
ScopePhrases(sentences) ==
    IF sentences = <<>> THEN <<>>
    ELSE Bigrams(LongWords(Head(sentences))) \o ScopePhrases(Tail(sentences))

PlacesOf(phrases, b) == { i \in 1..Len(phrases) : phrases[i] = b }

FirstSeen(phrases, b) ==
    CHOOSE i \in PlacesOf(phrases, b) : \A j \in PlacesOf(phrases, b) : i <= j

\* c comes before b: more frequent, or as frequent and seen first
Outranks(phrases, c, b) ==
    \/ Cardinality(PlacesOf(phrases, c)) > Cardinality(PlacesOf(phrases, b))
    \/ /\ Cardinality(PlacesOf(phrases, c)) = Cardinality(PlacesOf(phrases, b))
       /\ FirstSeen(phrases, c) < FirstSeen(phrases, b)

Rank(phrases, b) == 1 + Cardinality({ c \in Range(phrases) : Outranks(phrases, c, b) })

\* C14: the i-th question of generate_long_questions_fallback is a template
\* filled with the phrase of rank i among the distinct phrases of the first 20
\* sentences, by descending frequency and then first-seen position; there are
\* min(n, 10, number of distinct phrases) questions and no phrase is used twice.
C14_RankedPhrases ==
    op = "generate_long_questions_fallback" =>
        LET phrases == ScopePhrases(PhraseScope)
        IN  /\ Len(questions) =
                  Min(Min(num_questions, CommonPhrases), Cardinality(Range(phrases)))
            /\ \A i \in 1..Len(questions) :
                  /\ Head(questions[i]) \in Range(question_templates)
                  /\ Tail(questions[i]) \in Range(phrases)
                  /\ Rank(phrases, Tail(questions[i])) = i
            /\ \A i, j \in 1..Len(questions) :
                  i # j => Tail(questions[i]) # Tail(questions[j])

\* more than 10 phrases and more than 10 questions asked: 10 come back, the
\* first for a phrase seen late but twice
C14_Witness ==
    /\ op = "generate_long_questions_fallback"
    /\ content = WideContent
    /\ num_questions > CommonPhrases
    /\ Cardinality(Range(ScopePhrases(PhraseScope))) > CommonPhrases
    /\ Len(questions) = CommonPhrases
    /\ Tail(questions[1]) = <<"cell", "Cell">>
    /\ Tail(questions[2]) = <<"Cell", "Cell">>
    /\ Tail(questions[3]) = <<"cell", "cell">>


\* the last run was a generate request that stopped at one of its two errors
Aborted == op = "generate" /\ messages \in {<<TopicError>>, <<TextError>>}

\* C15: in a session, once the caller has downloaded the paper, or a generate
\* request has aborted, no paper of an earlier request is stored any more, and
\* none is in the preview.
C15_PaperDiscarded ==
    (op = "download" \/ Aborted) => (~HasPaper(session_state) /\ displayed = NoPaper)


\* C16: in every question of generate_mcqs_fallback the options are pairwise
\* distinct and the correct answer is exactly one of them, also when a content
\* word occurs twice in the sentence.
C16_DistinctOptions ==
    McqFellBack =>
        \A k \in 1..Len(questions) :
            /\ \A i, j \in 1..Len(questions[k].options) :
                  i # j => questions[k].options[i] # questions[k].options[j]
            /\ Count(questions[k].options, questions[k].correct_answer) = 1

====
